---------------------------- MODULE Spec2Model ----------------------------
(***************************************************************************)
(* circle-race: the per-frame simulation of src/main.rs (Circle, Player,   *)
(* Particle, Game::update) as a state machine.                             *)
(*                                                                         *)
(* Numbers.  The program computes in f32.  Here an f32 that holds a        *)
(* length, a velocity, an angle or an angular velocity is an integer count *)
(* of 1/S, and an f32 that holds a time (delta_time, a particle's life,    *)
(* the emitter's accumulator, a timer reading) is an integer count of      *)
(* 1/T1 second.  A product or quotient is rounded to the nearest grid      *)
(* value, as an f32 operation rounds to the nearest f32.  NaN is kept: it  *)
(* is what 0.0/0.0 yields, and it propagates and compares as in IEEE 754.  *)
(***************************************************************************)
EXTENDS Integers, Sequences, FiniteSets, TLC

VARIABLES
    t,                      \* Game.t
    next_thruster_particle, \* Game.next_thruster_particle
    camera,                 \* Game.camera (the two target fields)
    obstacles,              \* Game.obstacles
    player,                 \* Game.player
    particles,              \* Game.particles
    laps_done,              \* Game.laps_done
    current_lap_timer,      \* Game.current_lap_timer, as its elapsed() reading
    best_lap_time,          \* Game.best_lap_time
    thruster_effect,        \* Game.thruster_effect
    music_effect,           \* Game.music_effect
    frame,                  \* the locals and inputs of the last Game::update
    call                    \* a single call of a method, with its arguments and result

vars == <<t, next_thruster_particle, camera, obstacles, player, particles,
          laps_done, current_lap_timer, best_lap_time, thruster_effect,
          music_effect, frame, call>>

gameVars == <<t, next_thruster_particle, camera, obstacles, player, particles,
              laps_done, current_lap_timer, best_lap_time, thruster_effect,
              music_effect, frame>>

---------------------------------------------------------------------------
(* f32 on a grid *)

S == 100
T1 == 200
NaN == -2147483647

None == <<>>
Some(x) == <<x>>

Abs(a) == IF a < 0 THEN -a ELSE a
Min(a, b) == IF a < b THEN a ELSE b

\* a / b rounded to the nearest integer (b > 0), halves away from zero
RDiv(a, b) ==
    IF a >= 0 THEN (2 * a + b) \div (2 * b) ELSE -((2 * (-a) + b) \div (2 * b))

IsNaN(a) == a = NaN
FAdd(a, b) == IF IsNaN(a) \/ IsNaN(b) THEN NaN ELSE a + b
FSub(a, b) == IF IsNaN(a) \/ IsNaN(b) THEN NaN ELSE a - b
FNeg(a) == IF IsNaN(a) THEN NaN ELSE -a
FAbs(a) == IF IsNaN(a) THEN NaN ELSE Abs(a)
\* the product of two values of scale S
FMul(a, b) == IF IsNaN(a) \/ IsNaN(b) THEN NaN ELSE RDiv(a * b, S)
\* the product of a value of scale S and a time: value * seconds
TMul(a, dt) == IF IsNaN(a) THEN NaN ELSE RDiv(a * dt, T1)
\* the quotient of two values of scale S; 0.0 / 0.0 is NaN (the only division
\* by zero the program can make: a vector by its own zero length)
FDiv(a, b) ==
    IF IsNaN(a) \/ IsNaN(b) \/ b = 0 THEN NaN ELSE RDiv(a * S, Abs(b)) * (IF b < 0 THEN -1 ELSE 1)
\* comparisons: every comparison with NaN is false
FLt(a, b) == ~IsNaN(a) /\ ~IsNaN(b) /\ a < b
FGt(a, b) == ~IsNaN(a) /\ ~IsNaN(b) /\ a > b
FGe(a, b) == ~IsNaN(a) /\ ~IsNaN(b) /\ a >= b

\* the integer part of the square root of n, by Newton's iteration from a
\* first value x that is not below the root
RECURSIVE SqrtFrom(_, _)
SqrtFrom(n, x) ==
    LET y == (x + n \div x) \div 2
    IN  IF y >= x THEN x ELSE SqrtFrom(n, y)

---------------------------------------------------------------------------
(* Vec2<f32> *)

vec2(x, y) == [x |-> x, y |-> y]
VIsNaN(v) == IsNaN(v.x) \/ IsNaN(v.y)
VAdd(a, b) == vec2(FAdd(a.x, b.x), FAdd(a.y, b.y))
VSub(a, b) == vec2(FSub(a.x, b.x), FSub(a.y, b.y))
VNeg(a) == vec2(FNeg(a.x), FNeg(a.y))
VScale(a, k) == vec2(FMul(a.x, k), FMul(a.y, k))
VTime(a, dt) == vec2(TMul(a.x, dt), TMul(a.y, dt))
Dot(a, b) == FAdd(FMul(a.x, b.x), FMul(a.y, b.y))
Skew(a, b) == FSub(FMul(a.x, b.y), FMul(a.y, b.x))
\* Vec2::len: sqrt(x*x + y*y); on the grid the root is cut to the grid value below
VLen(v) ==
    IF VIsNaN(v) THEN NaN
    ELSE IF v.x = 0 /\ v.y = 0 THEN 0
    ELSE SqrtFrom(v.x * v.x + v.y * v.y, Abs(v.x) + Abs(v.y))
\* Vec2::normalize: self / self.len(); the zero vector gives (NaN, NaN)
Normalize(v) == LET len == VLen(v) IN vec2(FDiv(v.x, len), FDiv(v.y, len))

---------------------------------------------------------------------------
(* Circle *)

Circle(pos, r) == [pos |-> pos, r |-> r]

CircleCollide(self, other) ==
    LET delta_pos == VSub(other.pos, self.pos)
        dist == VLen(delta_pos)
        penetration == FSub(FAdd(self.r, other.r), dist)
    IN  IF FGt(penetration, 0)
        THEN Some([pos |-> VAdd(self.pos, VScale(Normalize(delta_pos), self.r)),
                   normal |-> Normalize(delta_pos),
                   penetration |-> penetration])
        ELSE None

---------------------------------------------------------------------------
(* angles: f32::sin_cos and f32::atan2 on the grid *)

PI == RDiv(314159 * S, 100000)
HALF_PI == RDiv(PI, 2)
ONE == S

\* 100 * sin(i / 100) for i = 0 .. 157, rounded
SinTable ==
    <<0, 1, 2, 3, 4, 5, 6, 7, 8, 9, 10, 11, 12, 13, 14, 15, 16, 17, 18, 19,
      20, 21, 22, 23, 24, 25, 26, 27, 28, 29, 30, 31, 31, 32, 33, 34, 35, 36,
      37, 38, 39, 40, 41, 42, 43, 43, 44, 45, 46, 47, 48, 49, 50, 51, 51, 52,
      53, 54, 55, 56, 56, 57, 58, 59, 60, 61, 61, 62, 63, 64, 64, 65, 66, 67,
      67, 68, 69, 70, 70, 71, 72, 72, 73, 74, 74, 75, 76, 76, 77, 78, 78, 79,
      80, 80, 81, 81, 82, 82, 83, 84, 84, 85, 85, 86, 86, 87, 87, 88, 88, 89,
      89, 90, 90, 90, 91, 91, 92, 92, 92, 93, 93, 94, 94, 94, 95, 95, 95, 96,
      96, 96, 96, 97, 97, 97, 97, 98, 98, 98, 98, 98, 99, 99, 99, 99, 99, 99,
      99, 99, 100, 100, 100, 100, 100, 100, 100, 100, 100, 100>>

\* an angle brought into (-PI, PI]
WrapAngle(a) ==
    LET m == a % (2 * PI) IN IF m > PI THEN m - 2 * PI ELSE m

Sin(a) ==
    IF IsNaN(a) THEN NaN
    ELSE LET w == WrapAngle(a)
             m == Abs(w)
             q == IF m > HALF_PI THEN PI - m ELSE m
         IN  (IF w < 0 THEN -1 ELSE 1) * SinTable[q + 1]

Cos(a) == IF IsNaN(a) THEN NaN ELSE Sin(a + HALF_PI)

\* Vec2::rotated(v, angle)
Rotated(v, angle) ==
    vec2(FSub(FMul(v.x, Cos(angle)), FMul(v.y, Sin(angle))),
         FAdd(FMul(v.x, Sin(angle)), FMul(v.y, Cos(angle))))

\* |atan2(y, x)| < 1 radian, decided on the grid by tan(1) = 1.5574077
WithinOneRadian(v) == v.x > 0 /\ Abs(v.y) * 10000 <= v.x * 15574

\* the angle in 0 .. PI of a vector with y > 0: the largest grid angle a for
\* which the direction (cos a, sin a) is not past the vector
RECURSIVE ArgSearch(_, _, _)
ArgSearch(v, lo, hi) ==
    IF lo >= hi THEN lo
    ELSE LET mid == (lo + hi + 1) \div 2
         IN  IF Cos(mid) * v.y - Sin(mid) * v.x >= 0
             THEN ArgSearch(v, mid, hi)
             ELSE ArgSearch(v, lo, mid - 1)

\* Vec2::arg: atan2(y, x), in (-PI, PI].  The grid value never rounds across
\* 0 or across 1 radian, the two values the program compares an angle with.
Arg(v) ==
    IF VIsNaN(v) THEN NaN
    ELSE IF v.y = 0 THEN (IF v.x >= 0 THEN 0 ELSE PI)
    ELSE LET up == vec2(v.x, Abs(v.y))
             raw == ArgSearch(up, 0, PI)
             mag == IF WithinOneRadian(v) THEN Min(IF raw < 1 THEN 1 ELSE raw, ONE - 1)
                    ELSE IF raw < ONE THEN ONE ELSE raw
         IN  IF v.y < 0 THEN -mag ELSE mag

---------------------------------------------------------------------------
(* Player *)

DAMP == RDiv(9 * S, 10)
THRUSTER_R == RDiv(6 * S, 10)
HEAD_R == RDiv(3 * S, 10)

Player(pos, vel, rotation, w) == [pos |-> pos, vel |-> vel, rotation |-> rotation, w |-> w]

\* Player::new
PlayerNew(pos) == Player(pos, vec2(0, 0), HALF_PI, 0)

\* Player::update with the damping taken over the whole delta_time, not over
\* min(delta_time, 1)
PlayerUpdate_NoMin(self, delta_time) ==
    LET vel == VSub(self.vel, VTime(VScale(self.vel, DAMP), delta_time))
        w == FSub(self.w, TMul(FMul(self.w, DAMP), delta_time))
    IN  Player(VAdd(self.pos, VTime(vel, delta_time)),
               vel,
               FAdd(self.rotation, TMul(w, delta_time)),
               w)

\* Player::update
PlayerUpdate(self, delta_time) ==
    LET m == Min(delta_time, T1)
        vel == VSub(self.vel, VTime(VScale(self.vel, DAMP), m))
        w == FSub(self.w, TMul(FMul(self.w, DAMP), m))
    IN  Player(VAdd(self.pos, VTime(vel, delta_time)),
               vel,
               FAdd(self.rotation, TMul(w, delta_time)),
               w)

left_thruster_tube(self) == VAdd(self.pos, Rotated(vec2(S - THRUSTER_R, S), self.rotation))
right_thruster_tube(self) == VAdd(self.pos, Rotated(vec2(S - THRUSTER_R, -S), self.rotation))
left_thruster(self) == Circle(VAdd(self.pos, Rotated(vec2(S, S), self.rotation)), THRUSTER_R)
right_thruster(self) == Circle(VAdd(self.pos, Rotated(vec2(S, -S), self.rotation)), THRUSTER_R)
head(self) == Circle(VAdd(self.pos, Rotated(vec2(-S, 0), self.rotation)), HEAD_R)

\* the first of three Options that is Some
FirstSome(a, b, c) == IF a # None THEN a ELSE IF b # None THEN b ELSE c

\* Player::collide with the left thruster tried before the head
PlayerCollide_LeftFirst(self, circle) ==
    FirstSome(CircleCollide(left_thruster(self), circle),
              CircleCollide(head(self), circle),
              CircleCollide(right_thruster(self), circle))

\* Player::collide: the head, then the left thruster, then the right thruster
PlayerCollide(self, circle) ==
    FirstSome(CircleCollide(head(self), circle),
              CircleCollide(left_thruster(self), circle),
              CircleCollide(right_thruster(self), circle))

\* Player::apply_impulse with the lever arm taken from the origin, not from the
\* vessel
ApplyImpulse_FromOrigin(self, impulse, pos) ==
    [self EXCEPT !.vel = VAdd(self.vel, impulse),
                 !.w = FAdd(self.w, Skew(pos, impulse))]

\* Player::apply_impulse
ApplyImpulse(self, impulse, pos) ==
    [self EXCEPT !.vel = VAdd(self.vel, impulse),
                 !.w = FAdd(self.w, Skew(VSub(pos, self.pos), impulse))]

---------------------------------------------------------------------------
(* Particle.  pos, vel, r and color are left out: vel holds random jitter and
   all four are read by draw only.  tube says which push made the particle;
   age is history: the delta_time summed since the push. *)

PARTICLE_LIFE == T1

Particle(tube) == [tube |-> tube, life |-> PARTICLE_LIFE, age |-> 0]

\* Particle::update
ParticleUpdate(self, delta_time) ==
    [self EXCEPT !.life = @ - delta_time, !.age = @ + delta_time]

---------------------------------------------------------------------------
(* Game *)

FORCE == 10 * S
INNER == 55 * S
OUTER == 70 * S
TIRE_SIZE == S
SPAWN_INTERVAL == RDiv(T1, 100)
BASE_FOV == 20 * S

\* the tires a ring of radius r starts with, from angle 0 on (Game::new's
\* add_circle); the noise term is taken as 0, its value at angle 0
RECURSIVE AddCircle(_, _, _)
AddCircle(r, angle, n) ==
    IF n = 0 \/ angle >= 2 * PI THEN <<>>
    ELSE <<Circle(Rotated(vec2(r, 0), angle), TIRE_SIZE)>>
         \o AddCircle(r, angle + FDiv(2 * TIRE_SIZE, r), n - 1)

\* Camera::new(fov), as far as Game::update writes the camera
CameraNew(fov) == [target_position |-> vec2(0, 0), target_fov |-> fov]

\* frame before the first Game::update.  Besides the locals of the last update
\* it keeps history: total_left and total_right count the particles pushed for
\* each thruster since Game::new, only_left (only_right) says that in every
\* update so far the left (right) key was held and the other was not, removed
\* counts the particles the last update dropped; thrusts counts the updates so
\* far with a thrust key held, thruster_plays, thruster_pauses and music_plays
\* the play and pause requests made so far; idle is the delta_time summed over
\* the updates since the last one with a thrust key held.
NoFrame ==
    [n |-> 0, delta_time |-> 0, left_key |-> FALSE, right_key |-> FALSE,
     before |-> vec2(0, 0), after |-> vec2(0, 0),
     last_arg |-> 0, now_arg |-> 0, laps_before |-> 0, best_before |-> None,
     timer_read |-> 0, timer_read_again |-> 0,
     bumps |-> 0, pushed_left |-> 0, pushed_right |-> 0,
     total_left |-> 0, total_right |-> 0, only_left |-> TRUE, only_right |-> TRUE,
     removed |-> 0,
     thruster_play |-> FALSE, thruster_pause |-> FALSE, music_play |-> FALSE,
     thrusts |-> 0, thruster_plays |-> 0, thruster_pauses |-> 0, music_plays |-> 0,
     idle |-> 0]

NoCall == [op |-> "none"]

\* Game::new, with the first tires of each ring
GameNew(tires) ==
    /\ t = 0
    /\ next_thruster_particle = 0
    /\ camera = CameraNew(BASE_FOV)
    /\ obstacles = AddCircle(INNER, 0, tires) \o AddCircle(OUTER, 0, tires)
    /\ player = PlayerNew(vec2((INNER + OUTER) \div 2, 0))
    /\ particles = <<>>
    /\ laps_done = 0
    /\ current_lap_timer = 0
    /\ best_lap_time = None
    /\ thruster_effect = None
    /\ music_effect = None
    /\ frame = NoFrame

\* bounds of the exploration
MaxTires == 2
MaxTicks == 2
MaxClockGap == 2
MaxDampTicks == 2
MaxLapTicks == 1
MaxAudioTicks == 4
MaxF32Ticks == 90

\* f32::min: a NaN operand is dropped
FMin(a, b) == IF IsNaN(a) THEN b ELSE IF IsNaN(b) THEN a ELSE Min(a, b)

\* Game::update, the body of `if let Some(collision) = self.player.collide(obstacle)`.
\* bumps counts the bump sounds played.
Bounce(state, collision) ==
    LET moved == [state.player EXCEPT
                     !.pos = VSub(@, VScale(collision.normal, collision.penetration))]
        impulse == VScale(VNeg(collision.normal), Dot(collision.normal, moved.vel))
        volume == FMin(FMul(VLen(impulse), RDiv(3 * S, 10)), ONE)
    IN  [player |-> ApplyImpulse(moved, impulse, collision.pos),
         bumps |-> state.bumps + (IF FGt(volume, RDiv(S, 10)) THEN 1 ELSE 0)]

IfSome(state, hit) == IF hit = None THEN state ELSE Bounce(state, hit[1])

\* Game::update, the body of the loop over the obstacles: one obstacle against
\* the vessel
ResolveContact(state, obstacle) ==
    IfSome(state, PlayerCollide(state.player, obstacle))

\* Game::update, the loop over the obstacles, in their order
RECURSIVE ResolveObstacles(_, _, _)
ResolveObstacles(state, obs, i) ==
    IF i > Len(obs) THEN state
    ELSE ResolveObstacles(ResolveContact(state, obs[i]), obs, i + 1)

\* the lap test's first condition without the gate on the new angle
Forward_Ungated(last_arg, now_arg) ==
    FLt(last_arg, 0) /\ FGe(now_arg, 0)

\* the lap test's second condition with the old angle strictly positive
Backward_Strict(last_arg, now_arg) ==
    FLt(FAbs(now_arg), ONE) /\ FGt(last_arg, 0) /\ FLt(now_arg, 0)

\* Game::update, the lap test's two conditions
Forward(last_arg, now_arg) ==
    FLt(FAbs(now_arg), ONE) /\ FLt(last_arg, 0) /\ FGe(now_arg, 0)
Backward(last_arg, now_arg) ==
    FLt(FAbs(now_arg), ONE) /\ FGe(last_arg, 0) /\ FLt(now_arg, 0)

\* Game::update, the lap test: the new laps_done, best_lap_time and timer.
\* read and read_again are the two successive elapsed() readings of the timer;
\* running is its reading when it is not replaced; Timer::new() reads 0.
LapTest(last_arg, now_arg, laps, best, read, read_again, running) ==
    [laps_done |-> laps + (IF Forward(last_arg, now_arg) THEN 1 ELSE 0)
                        - (IF Backward(last_arg, now_arg) THEN 1 ELSE 0),
     best_lap_time |->
         IF Forward(last_arg, now_arg) /\ (best = None \/ best[1] > read)
         THEN Some(IF best = None THEN read ELSE read_again)
         ELSE best,
     current_lap_timer |-> IF Forward(last_arg, now_arg) THEN 0 ELSE running]

\* the emitter with an `if` for the `while`: the body runs once a tick at most
EmitLoop_Once(acc) ==
    [next_thruster_particle |-> IF acc < 0 THEN acc + SPAWN_INTERVAL ELSE acc,
     iterations |-> IF acc < 0 THEN 1 ELSE 0]

\* Game::update, the emitter's while loop
\*     while self.next_thruster_particle < 0.0 { self.next_thruster_particle += 1.0 / 100.0; .. }
\* entered with the accumulator at acc: the number of times the body runs is the
\* first n for which acc + n * SPAWN_INTERVAL is no longer negative
EmitLoop(acc) ==
    LET iterations ==
            CHOOSE n \in 0 .. (Abs(acc) \div SPAWN_INTERVAL + 1) :
                /\ acc + n * SPAWN_INTERVAL >= 0
                /\ n = 0 \/ acc + (n - 1) * SPAWN_INTERVAL < 0
    IN  [next_thruster_particle |-> acc + iterations * SPAWN_INTERVAL,
         iterations |-> iterations]

\* the particles the loop's body pushes in `iterations` runs: the left
\* thruster's, then the right thruster's, each if its force is on
Pushes(iterations, left_on, right_on) ==
    IF left_on /\ right_on
    THEN [i \in 1 .. 2 * iterations |-> Particle(IF i % 2 = 1 THEN "left" ELSE "right")]
    ELSE IF left_on THEN [i \in 1 .. iterations |-> Particle("left")]
    ELSE IF right_on THEN [i \in 1 .. iterations |-> Particle("right")]
    ELSE <<>>

\* the test of retain with life = 0 kept
Alive_AtZero(particle) == particle.life >= 0

\* Game::update, the test of self.particles.retain
Alive(particle) == particle.life > 0

\* Game::update, the loop over the particles
UpdateParticles(pool, delta_time) ==
    [i \in 1 .. Len(pool) |-> ParticleUpdate(pool[i], delta_time)]

\* Game::update, the audio cues with the thruster effect kept on pause (no
\* take())
AudioCues_NoTake(thrust, thruster, music) ==
    [thruster_effect |-> IF thrust THEN Some("thruster") ELSE thruster,
     music_effect |-> IF thrust THEN Some("music") ELSE music,
     thruster_play |-> thrust /\ thruster = None,
     thruster_pause |-> ~thrust /\ thruster # None,
     music_play |-> thrust /\ music = None]

\* Game::update, the audio cues: with thrust on, the thruster sound and the
\* music are played if their effect is None; with thrust off, the thruster
\* effect is taken and paused if there is one
AudioCues(thrust, thruster, music) ==
    [thruster_effect |-> IF thrust THEN Some("thruster") ELSE None,
     music_effect |-> IF thrust THEN Some("music") ELSE music,
     thruster_play |-> thrust /\ thruster = None,
     thruster_pause |-> ~thrust /\ thruster # None,
     music_play |-> thrust /\ music = None]

\* Game::update, the force of a thruster: its key held or not
ThrusterForce(key, self) ==
    IF key THEN Rotated(vec2(FORCE, 0), self.rotation) ELSE vec2(0, 0)

\* Game::update.  delta_time and the two keys are the inputs of one tick.
\* The lap timer runs on the wall clock, which geng also measures delta_time
\* with; clock_gap is the time between its two elapsed() readings, which are
\* made only when a lap is counted and a best time is stored.
Update(delta_time, left_key, right_key) ==
    \E left_thruster_force \in {ThrusterForce(left_key, player)} :
    \E p1 \in {ApplyImpulse(player, VTime(left_thruster_force, delta_time),
                            left_thruster(player).pos)} :
    \E right_thruster_force \in {ThrusterForce(right_key, p1)} :
    \E p2 \in {ApplyImpulse(p1, VTime(right_thruster_force, delta_time),
                            right_thruster(p1).pos)} :
    \E last_arg \in {Arg(p2.pos)} :
    \E p3 \in {PlayerUpdate(p2, delta_time)} :
    \E now_arg \in {Arg(p3.pos)} :
    \E read \in {current_lap_timer + delta_time} :
    \E clock_gap \in (IF Forward(last_arg, now_arg) /\ best_lap_time # None
                         /\ best_lap_time[1] > read
                      THEN 0 .. MaxClockGap ELSE {0}) :
    \E lap \in {LapTest(last_arg, now_arg, laps_done, best_lap_time,
                        read, read + clock_gap, read)} :
    \E resolved \in {ResolveObstacles([player |-> p3, bumps |-> 0], obstacles, 1)} :
    \E thrust \in {FGt(FAdd(VLen(left_thruster_force), VLen(right_thruster_force)), ONE)} :
    \E cues \in {AudioCues(thrust, thruster_effect, music_effect)} :
    \E left_on \in {FGt(VLen(left_thruster_force), RDiv(S, 10))} :
    \E right_on \in {FGt(VLen(right_thruster_force), RDiv(S, 10))} :
    \E emitted \in {EmitLoop(next_thruster_particle - delta_time)} :
    \E updated \in {UpdateParticles(
                        particles \o Pushes(emitted.iterations, left_on, right_on),
                        delta_time)} :
        /\ t' = t + delta_time
        /\ camera' = [target_position |-> VAdd(player.pos, VScale(player.vel, RDiv(7 * S, 10))),
                      target_fov |-> FAdd(BASE_FOV, FMul(VLen(player.vel), RDiv(3 * S, 10)))]
        /\ thruster_effect' = cues.thruster_effect
        /\ music_effect' = cues.music_effect
        /\ laps_done' = lap.laps_done
        /\ best_lap_time' = lap.best_lap_time
        /\ current_lap_timer' = lap.current_lap_timer
        /\ player' = resolved.player
        /\ next_thruster_particle' = emitted.next_thruster_particle
        /\ particles' = SelectSeq(updated, Alive)
        /\ frame' = [n |-> frame.n + 1, delta_time |-> delta_time,
                     left_key |-> left_key, right_key |-> right_key,
                     before |-> p2.pos, after |-> p3.pos,
                     last_arg |-> last_arg, now_arg |-> now_arg,
                     laps_before |-> laps_done, best_before |-> best_lap_time,
                     timer_read |-> read, timer_read_again |-> read + clock_gap,
                     bumps |-> resolved.bumps,
                     pushed_left |-> IF left_on THEN emitted.iterations ELSE 0,
                     pushed_right |-> IF right_on THEN emitted.iterations ELSE 0,
                     total_left |-> frame.total_left
                                    + (IF left_on THEN emitted.iterations ELSE 0),
                     total_right |-> frame.total_right
                                     + (IF right_on THEN emitted.iterations ELSE 0),
                     only_left |-> frame.only_left /\ left_key /\ ~right_key,
                     only_right |-> frame.only_right /\ right_key /\ ~left_key,
                     removed |-> Len(updated) - Len(SelectSeq(updated, Alive)),
                     thruster_play |-> cues.thruster_play,
                     thruster_pause |-> cues.thruster_pause,
                     music_play |-> cues.music_play,
                     thrusts |-> frame.thrusts
                                 + (IF left_key \/ right_key THEN 1 ELSE 0),
                     thruster_plays |-> frame.thruster_plays
                                        + (IF cues.thruster_play THEN 1 ELSE 0),
                     thruster_pauses |-> frame.thruster_pauses
                                         + (IF cues.thruster_pause THEN 1 ELSE 0),
                     music_plays |-> frame.music_plays
                                     + (IF cues.music_play THEN 1 ELSE 0),
                     idle |-> IF left_key \/ right_key THEN 0
                              ELSE frame.idle + delta_time]
        /\ UNCHANGED <<obstacles, call>>

---------------------------------------------------------------------------
(* The game from Game::new on *)

\* the delta_time values of a tick: 1/200 s, 1/3 s, 2/3 s, 1 s less 1/200 s, 1 s
TickTimes == {1, RDiv(T1, 3), RDiv(2 * T1, 3), T1 - 1, T1}

Init == GameNew(MaxTires) /\ call = NoCall

Tick ==
    /\ frame.n < MaxTicks
    /\ \E delta_time \in TickTimes, left_key \in BOOLEAN, right_key \in BOOLEAN :
          Update(delta_time, left_key, right_key)

Next == Tick

Spec == Init /\ [][Next]_vars

Kept(pool, delta_time) ==
    SelectSeq(pool, LAMBDA particle : particle.age + delta_time < PARTICLE_LIFE)

\* C4: at the end of every Game::update every particle of the pool has
\* 0 < life <= 1 s; a particle is aged by delta_time in every tick from the
\* one that pushed it on, and it leaves the pool in the first tick at whose end
\* the delta_time summed since its push is 1 second or more, not before and
\* not after.
C4_ParticleLife ==
    /\ [](\A i \in 1 .. Len(particles) :
              /\ particles[i].life > 0
              /\ particles[i].life <= PARTICLE_LIFE
              /\ particles[i].life + particles[i].age = PARTICLE_LIFE
              /\ particles[i].age >= frame.delta_time)
    /\ [][LET kept == Kept(particles, frame'.delta_time)
          IN  /\ Len(particles') >= Len(kept)
              /\ \A i \in 1 .. Len(particles') :
                     IF i <= Len(kept)
                     THEN /\ particles'[i].tube = kept[i].tube
                          /\ particles'[i].age = kept[i].age + frame'.delta_time
                     ELSE particles'[i].age = frame'.delta_time]_vars

\* a tick shorter than 1 second has dropped particles, pushed by the tick
\* before it, and has left others in the pool
C4_Witness ==
    /\ frame.n = 2
    /\ frame.delta_time < T1
    /\ frame.removed > 0
    /\ Len(particles) > 0

---------------------------------------------------------------------------
(* The game from Game::new on in short ticks, for the sequences of key states *)

AudioTick ==
    /\ frame.n < MaxAudioTicks
    /\ \E left_key \in BOOLEAN, right_key \in BOOLEAN :
          Update(1, left_key, right_key)

NextAudio == AudioTick

SpecAudio == Init /\ [][NextAudio]_vars

\* a thrust key was held in the update that frame f records
Held(f) == f.n > 0 /\ (f.left_key \/ f.right_key)

\* C12: at the end of every tick thruster_effect is Some exactly when a thrust
\* key was held in it; the thruster sound is played only in a tick with thrust
\* on after a tick with thrust off (or first), paused only in a tick with
\* thrust off after a tick with thrust on, never played twice without a pause
\* in between; the music is played exactly once, in the first tick with thrust
\* on, and never paused.
C12_AudioCues ==
    /\ [](/\ frame.n > 0 => (thruster_effect # None <=> Held(frame))
          /\ frame.thruster_plays - frame.thruster_pauses
                 = (IF thruster_effect # None THEN 1 ELSE 0)
          /\ frame.music_plays = (IF frame.thrusts > 0 THEN 1 ELSE 0)
          /\ music_effect # None <=> frame.thrusts > 0)
    /\ [][/\ frame'.thruster_play => (Held(frame') /\ ~Held(frame))
          /\ frame'.thruster_pause => (~Held(frame') /\ Held(frame))
          /\ frame'.music_play <=> (Held(frame') /\ frame.thrusts = 0)
          /\ music_effect # None => music_effect' = music_effect]_vars

\* the thruster sound has been played, paused and played again, and the music
\* played once
C12_Witness ==
    /\ frame.thruster_plays = 2
    /\ frame.thruster_pauses = 1
    /\ frame.music_plays = 1
    /\ frame.thruster_play
    /\ thruster_effect # None

---------------------------------------------------------------------------
(* The emitter and the particle pool of Game::update in f32 itself.  Here
   next_thruster_particle, a particle's life and delta_time are counted in
   units of 2^-30 second.  The f32 values between 2^-7 and 2 are multiples of
   that unit, and sums and differences of such values below 2^-6 are f32
   values as they stand, so an f32 addition or subtraction is the integer one
   followed by the rounding to 24 significant bits, ties to even.  A run holds
   delta_time and the keys fixed; the keys are released after `hold` ticks. *)

F32_ONE == 2 ^ 30

\* the power of two q for which m \div q has 24 bits at most
RECURSIVE F32Quantum(_, _)
F32Quantum(m, q) == IF m \div q < 2 ^ 24 THEN q ELSE F32Quantum(m, 2 * q)

\* the f32 nearest to m >= 0, ties to the even mantissa
F32RoundAbs(m) ==
    LET q == F32Quantum(m, 1)
        down == m - (m % q)
    IN  IF 2 * (m % q) < q THEN down
        ELSE IF 2 * (m % q) > q THEN down + q
        ELSE IF (down \div q) % 2 = 0 THEN down ELSE down + q

F32Round(x) == IF x < 0 THEN -F32RoundAbs(-x) ELSE F32RoundAbs(x)
F32Add(a, b) == F32Round(a + b)
F32Sub(a, b) == F32Round(a - b)

\* 1.0 / 100.0 as an f32
F32_SPAWN_INTERVAL == F32Round((F32_ONE + 50) \div 100)

\* 1/60 s and 1/100 s as f32: the f32 nearest to 1/60 is a multiple of 2^-29
F32TickTimes == {2 * ((2 ^ 29 + 30) \div 60), F32_SPAWN_INTERVAL}

\* the emitter's while loop on f32: the accumulator it ends with and the
\* number of times its body ran, n counting them
RECURSIVE F32EmitLoop(_, _)
F32EmitLoop(acc, n) ==
    IF acc < 0 THEN F32EmitLoop(F32Add(acc, F32_SPAWN_INTERVAL), n + 1)
    ELSE [next_thruster_particle |-> acc, iterations |-> n]

\* Particle::update on f32
F32ParticleUpdate(self, delta_time) ==
    [self EXCEPT !.life = F32Sub(@, delta_time), !.age = @ + delta_time]

\* the particles pushed, with life: 1.0
F32Pushes(iterations, left_on, right_on) ==
    [i \in 1 .. Len(Pushes(iterations, left_on, right_on)) |->
        [Pushes(iterations, left_on, right_on)[i] EXCEPT !.life = F32_ONE]]

InitF32 ==
    /\ GameNew(MaxTires)
    /\ call \in {[op |-> "run", delta_time |-> delta_time, left_key |-> TRUE,
                  right_key |-> right_key, hold |-> hold] :
                    delta_time \in F32TickTimes, right_key \in BOOLEAN,
                    hold \in {MaxF32Ticks \div 4, MaxF32Ticks + 1}}

\* Game::update, from `self.next_thruster_particle -= delta_time` to the end
F32Tick ==
    /\ call.op = "run"
    /\ frame.n < MaxF32Ticks
    /\ \E left_on \in {call.left_key /\ frame.n < call.hold} :
       \E right_on \in {call.right_key /\ frame.n < call.hold} :
       \E emitted \in {F32EmitLoop(F32Sub(next_thruster_particle, call.delta_time), 0)} :
       \E updated \in {[i \in 1 .. Len(particles) + Len(F32Pushes(emitted.iterations,
                                                               left_on, right_on)) |->
                           F32ParticleUpdate(
                               (particles \o F32Pushes(emitted.iterations,
                                                       left_on, right_on))[i],
                               call.delta_time)]} :
          /\ next_thruster_particle' = emitted.next_thruster_particle
          /\ particles' = SelectSeq(updated, Alive)
          /\ frame' = [frame EXCEPT
                          !.n = @ + 1,
                          !.delta_time = call.delta_time,
                          !.left_key = left_on,
                          !.right_key = right_on,
                          !.pushed_left = IF left_on THEN emitted.iterations ELSE 0,
                          !.pushed_right = IF right_on THEN emitted.iterations ELSE 0,
                          !.removed = Len(updated) - Len(SelectSeq(updated, Alive)),
                          !.idle = IF left_on \/ right_on THEN 0
                                   ELSE @ + call.delta_time]
    /\ UNCHANGED <<t, camera, obstacles, player, laps_done, current_lap_timer,
                   best_lap_time, thruster_effect, music_effect, call>>

NextF32 == F32Tick

SpecF32 == InitF32 /\ [][NextF32]_vars

\* C13: at the end of every tick the pool holds at most 200 particles, and
\* it is empty when no thruster has been active during ticks whose summed
\* delta_time is 1 second or more.
C13_PoolBound ==
    /\ Len(particles) <= 200
    /\ frame.idle >= F32_ONE => particles = <<>>

\* C4, on f32: at the end of every Game::update every particle of the pool has
\* 0 < life <= 1 s and the delta_time summed since its push is below 1 second
\* (it is not removed later than the tick that brings the sum to 1 second), and
\* a tick keeps every particle for which the sum stays below 1 second (it is
\* not removed earlier).
C4_ParticleLifeF32 ==
    /\ [](\A i \in 1 .. Len(particles) :
              /\ particles[i].life > 0
              /\ particles[i].life <= F32_ONE
              /\ particles[i].age < F32_ONE)
    /\ [][Len(particles')
              >= Len(SelectSeq(particles,
                               LAMBDA particle :
                                   particle.age + frame'.delta_time < F32_ONE))]_vars

---------------------------------------------------------------------------
(* Single calls of Circle::collide, Player::collide, Player::apply_impulse and
   of the contact resolution of Game::update, on arguments for which the grid
   computes without rounding: the distances are sides of 3-4-5 triangles. *)

\* centre of a circle, and the offsets of a second centre from it
Centres == {vec2(0, 0), vec2(-250, 400)}
Deltas == {vec2(0, 0), vec2(30, 40), vec2(-60, 80), vec2(90, -120), vec2(-120, -160),
           vec2(100, 0), vec2(0, -160), vec2(200, 0), vec2(0, 250)}
Radii == {HEAD_R, THRUSTER_R, TIRE_SIZE}

CallCircleCollide ==
    /\ call = NoCall
    /\ \E pos \in Centres, delta \in Deltas, r \in Radii, other_r \in Radii :
          call' = [op |-> "Circle::collide",
                   self |-> Circle(pos, r),
                   other |-> Circle(VAdd(pos, delta), other_r),
                   result |-> CircleCollide(Circle(pos, r), Circle(VAdd(pos, delta), other_r))]
    /\ UNCHANGED gameVars

\* vessels: at the start line and at the origin, heading along x and along y
Vessels ==
    {Player(pos, vel, rotation, w) :
        pos \in {vec2(0, 0), vec2((INNER + OUTER) \div 2, 0)},
        vel \in {vec2(0, 0), vec2(250, -500)},
        rotation \in {0, HALF_PI},
        w \in {0, 30}}

\* centres of a tire about a vessel at the origin
Around == {vec2(x, y) : x \in {-200, -100, 0, 100, 200}, y \in {-150, -50, 0, 50, 150}}

CallPlayerCollide ==
    /\ call = NoCall
    /\ \E self \in Vessels, at \in Around, r \in {TIRE_SIZE, 2 * TIRE_SIZE} :
          call' = [op |-> "Player::collide",
                   self |-> self,
                   circle |-> Circle(VAdd(self.pos, at), r),
                   result |-> PlayerCollide(self, Circle(VAdd(self.pos, at), r))]
    /\ UNCHANGED gameVars

Impulses == {vec2(0, 0), vec2(100, 0), vec2(-50, 120), vec2(0, -200)}
Levers == {vec2(0, 0), vec2(100, 100), vec2(100, -100), vec2(-100, 0)}

CallApplyImpulse ==
    /\ call = NoCall
    /\ \E self \in Vessels, impulse \in Impulses, lever \in Levers :
          call' = [op |-> "Player::apply_impulse",
                   self |-> self,
                   impulse |-> impulse,
                   pos |-> VAdd(self.pos, lever),
                   result |-> ApplyImpulse(self, impulse, VAdd(self.pos, lever))]
    /\ UNCHANGED gameVars

\* the three circles of a vessel, by name
Shape(self, name) ==
    IF name = "head" THEN head(self)
    ELSE IF name = "left" THEN left_thruster(self)
    ELSE right_thruster(self)

\* vessels that move, and offsets of a tire from the circle of the vessel it is
\* put against; a tire is taken when that circle is the one it hits, if any
Movers ==
    {Player(pos, vel, rotation, 0) :
        pos \in {vec2(0, 0), vec2((INNER + OUTER) \div 2, 0)},
        vel \in {vec2(0, 0), vec2(250, -500), vec2(-125, 75), vec2(1000, 0)},
        rotation \in {0, HALF_PI}}
Against ==
    {vec2(0, 0), vec2(30, 40), vec2(-30, 40), vec2(-60, -80), vec2(72, -96),
     vec2(-300, -400), vec2(600, 800)}

CallResolveContact ==
    /\ call = NoCall
    /\ \E self \in Movers, name \in {"head", "left", "right"}, delta \in Against :
          LET obstacle == Circle(VAdd(Shape(self, name).pos, delta), TIRE_SIZE)
          IN  /\ PlayerCollide(self, obstacle)
                     \in {None, CircleCollide(Shape(self, name), obstacle)}
              /\ call' = [op |-> "resolve",
                           self |-> self,
                           obstacle |-> obstacle,
                           hit |-> PlayerCollide(self, obstacle),
                           result |-> ResolveContact([player |-> self, bumps |-> 0],
                                                     obstacle)]
    /\ UNCHANGED gameVars

NextFn ==
    \/ CallCircleCollide
    \/ CallPlayerCollide
    \/ CallApplyImpulse
    \/ CallResolveContact

SpecFn == Init /\ [][NextFn]_vars

---------------------------------------------------------------------------
(* Player::update called again and again with no impulse in between.  The
   velocities are multiples of DampUnit and the delta_time values are 0.2 s,
   0.5 s, 1 s and 1.5 s, for which the damping factors 0.82, 0.55, 0.1 and 0.1
   are computed on the grid without rounding. *)

DampUnit == 100 ^ MaxDampTicks
DampTimes == {RDiv(T1, 5), RDiv(T1, 2), T1, RDiv(3 * T1, 2)}
DampVessels ==
    {Player(vec2((INNER + OUTER) \div 2, 0), vec2(x, y), HALF_PI, w) :
        x \in {0, DampUnit, -2 * DampUnit},
        y \in {0, 3 * DampUnit},
        w \in {0, DampUnit, -DampUnit}}

InitDamp ==
    /\ GameNew(MaxTires)
    /\ call \in {[op |-> "Player::update", n |-> 0, delta_time |-> 0,
                  self |-> self, result |-> self] : self \in DampVessels}

CallPlayerUpdate ==
    /\ call.op = "Player::update"
    /\ call.n < MaxDampTicks
    /\ \E delta_time \in DampTimes :
          call' = [op |-> "Player::update", n |-> call.n + 1, delta_time |-> delta_time,
                   self |-> call.result,
                   result |-> PlayerUpdate(call.result, delta_time)]
    /\ UNCHANGED gameVars

NextDamp == CallPlayerUpdate

SpecDamp == InitDamp /\ [][NextDamp]_vars

\* after is before times a factor in [0.1, 1): zero stays zero, the sign is
\* kept, the magnitude shrinks, to no less than a tenth
Damped(before, after) ==
    IF before = 0 THEN after = 0
    ELSE IF before > 0 THEN after < before /\ 10 * after >= before
    ELSE after > before /\ 10 * after <= before

\* C5: in Player::update with no impulse applied, for every delta_time > 0,
\* also above 1 second, each component of the velocity and the angular
\* velocity become the previous value times a factor in [0.1, 1); none grows,
\* none changes sign, and zero stays zero.
C5_Damping ==
    (call.op = "Player::update" /\ call.n > 0) =>
        /\ Damped(call.self.vel.x, call.result.vel.x)
        /\ Damped(call.self.vel.y, call.result.vel.y)
        /\ Damped(call.self.w, call.result.w)

\* a second update, of 1.5 s, has cut a moving, turning vessel's velocity and
\* angular velocity to exactly a tenth
C5_Witness ==
    /\ call.op = "Player::update"
    /\ call.n = 2
    /\ call.delta_time > T1
    /\ call.self.vel.x < 0
    /\ call.self.w > 0
    /\ 10 * call.result.vel.x = call.self.vel.x
    /\ 10 * call.result.w = call.self.w

---------------------------------------------------------------------------
(* The game near the start line.  The vessel is about to cross the line of
   angle 0 or the line of angle PI, on the track or inside the inner ring; a
   best lap of 1.5 s may stand from an earlier lap, and the timer of the
   current lap reads 0 or just under 1 s. *)

LapPositions ==
    {vec2(6250, -100), vec2(6250, 100), vec2(6250, 0),
     vec2(-6250, 100), vec2(-6250, -100),
     vec2(300, -500), vec2(300, 500)}
LapVelocities == {vec2(0, 800), vec2(0, -800), vec2(0, 2000), vec2(0, -2000)}
LapBests == {None, Some(RDiv(3 * T1, 2))}
LapTimers == {0, T1 - 1}
LapTickTimes == {RDiv(T1, 2), T1}

InitLap ==
    /\ t = 0
    /\ next_thruster_particle = 0
    /\ camera = CameraNew(BASE_FOV)
    /\ obstacles = AddCircle(INNER, 0, MaxTires) \o AddCircle(OUTER, 0, MaxTires)
    /\ player \in {Player(pos, vel, HALF_PI, 0) : pos \in LapPositions, vel \in LapVelocities}
    /\ particles = <<>>
    /\ laps_done = 0
    /\ current_lap_timer \in LapTimers
    /\ best_lap_time \in LapBests
    /\ thruster_effect = None
    /\ music_effect = None
    /\ frame = NoFrame
    /\ call = NoCall

LapTick ==
    /\ frame.n < MaxLapTicks
    /\ \E delta_time \in LapTickTimes, left_key \in BOOLEAN, right_key \in BOOLEAN :
          Update(delta_time, left_key, right_key)

NextLap == LapTick

SpecLap == InitLap /\ [][NextLap]_vars

\* the angular position atan2(y, x) of pos is negative
Negative(pos) == pos.y < 0

\* C2: a tick whose angular position is negative before Player::update and
\* non-negative and within 1 radian of zero after it adds exactly 1 to
\* laps_done and restarts the lap timer; a tick that goes from non-negative to
\* negative, the new angle within 1 radian of zero, subtracts exactly 1; every
\* other tick leaves laps_done alone.
C2_LapDetection ==
    frame.n > 0 =>
        IF Negative(frame.before) /\ ~Negative(frame.after) /\ WithinOneRadian(frame.after)
        THEN laps_done = frame.laps_before + 1 /\ current_lap_timer = 0
        ELSE IF ~Negative(frame.before) /\ Negative(frame.after)
                /\ WithinOneRadian(frame.after)
        THEN laps_done = frame.laps_before - 1
        ELSE laps_done = frame.laps_before

\* a tick has taken the vessel from a negative angle to a non-negative one near
\* zero, one lap was added and the timer restarted
C2_Witness ==
    /\ frame.n > 0
    /\ Negative(frame.before)
    /\ ~Negative(frame.after)
    /\ laps_done = frame.laps_before + 1
    /\ current_lap_timer = 0

\* the lap state is as the tick found it: the counter and the best time are
\* the old ones and the timer has run on
LapStateKept ==
    /\ laps_done = frame.laps_before
    /\ best_lap_time = frame.best_before
    /\ current_lap_timer = frame.timer_read

\* C9: a tick in which the old or the new angular position is 1 radian or
\* more away from zero leaves laps_done, the lap timer and the best lap time
\* unchanged.
C9_BothWithinOneRadian ==
    (frame.n > 0 /\ (~WithinOneRadian(frame.before) \/ ~WithinOneRadian(frame.after)))
        => LapStateKept

\* C9 as amended: a tick in which the new angular position is 1 radian or more
\* away from zero leaves laps_done, the lap timer and the best lap time
\* unchanged.
C9_NewWithinOneRadian ==
    (frame.n > 0 /\ ~WithinOneRadian(frame.after)) => LapStateKept

\* a tick has taken the vessel across the line of angle PI, from a negative
\* angle to a positive one, and the lap state was kept
C9_Witness ==
    /\ frame.n > 0
    /\ frame.before.x < 0
    /\ Negative(frame.before)
    /\ ~Negative(frame.after)
    /\ ~WithinOneRadian(frame.after)
    /\ LapStateKept

\* C10: best_lap_time changes only in a tick that adds a lap, and then only
\* when there is no best time or the timer's reading is below it, to a reading
\* of the timer; once set it never increases and never returns to None.
C10_BestLap ==
    frame.n > 0 =>
        /\ IF laps_done = frame.laps_before + 1
              /\ (frame.best_before = None \/ frame.timer_read < frame.best_before[1])
           THEN /\ best_lap_time # None
                /\ best_lap_time[1] >= frame.timer_read
                /\ best_lap_time[1] <= frame.timer_read_again
           ELSE best_lap_time = frame.best_before
        /\ frame.best_before # None =>
               best_lap_time # None /\ best_lap_time[1] <= frame.best_before[1]

---------------------------------------------------------------------------
(* The game at the start line: the vessel is next to the inner ring's first
   tire, at (INNER, 0), clear of every tire, or in the middle of the track,
   and it drifts toward the ring or across the line of angle 0. *)

BumpPositions == {vec2(x, y) : x \in {5760, 5780, 6250}, y \in {-30, -5, 5}}
BumpVelocities ==
    {vec2(0, 0), vec2(-220, 0), vec2(-220, 40), vec2(-300, -40), vec2(0, 80), vec2(0, -80)}

\* the vessel overlaps no obstacle
Clear(self, obs) == \A i \in 1 .. Len(obs) : PlayerCollide(self, obs[i]) = None

InitBump ==
    /\ t = 0
    /\ next_thruster_particle = 0
    /\ camera = CameraNew(BASE_FOV)
    /\ obstacles = AddCircle(INNER, 0, MaxTires) \o AddCircle(OUTER, 0, MaxTires)
    /\ player \in {Player(pos, vel, HALF_PI, 0) :
                      pos \in BumpPositions, vel \in BumpVelocities}
    /\ Clear(player, obstacles)
    /\ particles = <<>>
    /\ laps_done = 0
    /\ current_lap_timer = 0
    /\ best_lap_time = None
    /\ thruster_effect = None
    /\ music_effect = None
    /\ frame = NoFrame
    /\ call = NoCall

SpecBump == InitBump /\ [][NextLap]_vars

\* C11: whenever the angular positions at the end of one tick and at the end
\* of the next are both within 1 radian of zero and differ in sign (negative
\* against non-negative), laps_done has changed between the two by +1 or -1
\* accordingly, also when it is the positional correction of a contact that
\* has taken the vessel across the line of angle 0.
C11_LapFollowsSign ==
    [][(/\ WithinOneRadian(player.pos)
        /\ WithinOneRadian(player'.pos)
        /\ Negative(player.pos) # Negative(player'.pos))
       => laps_done' = laps_done + (IF Negative(player.pos) THEN 1 ELSE -1)]_vars

---------------------------------------------------------------------------
(* Properties of the single calls *)

\* the squared distance of two centres, and overlap decided on it
Dist2(a, b) == (b.x - a.x) * (b.x - a.x) + (b.y - a.y) * (b.y - a.y)
Overlap(a, b) == Dist2(a.pos, b.pos) < (a.r + b.r) * (a.r + b.r)

\* v is a unit vector along delta: the same direction, length 1
UnitAlong(v, delta) ==
    /\ ~VIsNaN(v)
    /\ v.x * v.x + v.y * v.y = S * S
    /\ v.x * delta.y = v.y * delta.x
    /\ v.x * delta.x + v.y * delta.y >= 0

\* C1: Circle::collide(A, B) returns, for every pair with dist < A.r + B.r,
\* dist = 0 included, a Collision with penetration = A.r + B.r - dist > 0, a
\* normal of unit length that points from A toward B, and the contact point
\* A.pos + normal * A.r; for every pair with dist >= A.r + B.r it returns None.
C1_CollideContract ==
    call.op = "Circle::collide" =>
        LET A == call.self
            B == call.other
            dist == VLen(VSub(B.pos, A.pos))
        IN  IF Overlap(A, B)
            THEN /\ call.result # None
                 /\ call.result[1].penetration = A.r + B.r - dist
                 /\ call.result[1].penetration > 0
                 /\ UnitAlong(call.result[1].normal, VSub(B.pos, A.pos))
                 /\ call.result[1].pos = VAdd(A.pos, VScale(call.result[1].normal, A.r))
            ELSE call.result = None

\* C6: Player::apply_impulse(impulse, point) adds exactly the impulse to the
\* velocity and exactly the cross product (point - position) x impulse to the
\* angular velocity, leaves position and orientation alone, and with a zero
\* impulse leaves the whole vessel unchanged.
C6_ApplyImpulse ==
    call.op = "Player::apply_impulse" =>
        LET lever == VSub(call.pos, call.self.pos)
        IN  /\ call.result.vel.x = call.self.vel.x + call.impulse.x
            /\ call.result.vel.y = call.self.vel.y + call.impulse.y
            /\ (call.result.w - call.self.w) * S
                   = lever.x * call.impulse.y - lever.y * call.impulse.x
            /\ call.result.pos = call.self.pos
            /\ call.result.rotation = call.self.rotation
            /\ (call.impulse = vec2(0, 0) => call.result = call.self)

\* an impulse off the centre of a vessel away from the origin has acted: it
\* changed both the velocity and the angular velocity
C6_Witness ==
    /\ call.op = "Player::apply_impulse"
    /\ call.self.pos # vec2(0, 0)
    /\ call.pos # call.self.pos
    /\ call.result.vel # call.self.vel
    /\ call.result.w # call.self.w

\* C7: Player::collide(circle) returns the collision of the first of head, left
\* thruster, right thruster (in that order) that overlaps the circle, whatever
\* the later ones do, and None exactly when none of the three overlaps it.
C7_CollideOrder ==
    call.op = "Player::collide" =>
        IF Overlap(head(call.self), call.circle)
        THEN call.result = CircleCollide(head(call.self), call.circle) /\ call.result # None
        ELSE IF Overlap(left_thruster(call.self), call.circle)
        THEN call.result = CircleCollide(left_thruster(call.self), call.circle)
             /\ call.result # None
        ELSE IF Overlap(right_thruster(call.self), call.circle)
        THEN call.result = CircleCollide(right_thruster(call.self), call.circle)
             /\ call.result # None
        ELSE call.result = None

\* the head and the left thruster both overlap the circle, the left thruster
\* more deeply, and the head's collision is the one returned
C7_Witness ==
    /\ call.op = "Player::collide"
    /\ Overlap(head(call.self), call.circle)
    /\ Overlap(left_thruster(call.self), call.circle)
    /\ CircleCollide(left_thruster(call.self), call.circle)[1].penetration
           > call.result[1].penetration
    /\ call.result = CircleCollide(head(call.self), call.circle)

\* the circle of the vessel that Player::collide reports the hit of
HitShape(self, circle) ==
    IF Overlap(head(self), circle) THEN "head"
    ELSE IF Overlap(left_thruster(self), circle) THEN "left"
    ELSE "right"

\* C8: resolving one contact with normal n and penetration p moves the vessel
\* by exactly -n * p, after which the circle that hit touches the obstacle with
\* penetration 0, and applies the impulse -n * dot(n, velocity), after which
\* the velocity along n is zero and the velocity across n is what it was.
C8_ResolveContact ==
    (call.op = "resolve" /\ call.hit # None) =>
        LET n == call.hit[1].normal
            p == call.hit[1].penetration
            self == call.self
            after == call.result.player
            shape == Shape(after, HitShape(self, call.obstacle))
        IN  /\ ~VIsNaN(n)
            /\ ~VIsNaN(after.pos)
            /\ ~VIsNaN(after.vel)
            /\ (self.pos.x - after.pos.x) * S = n.x * p
            /\ (self.pos.y - after.pos.y) * S = n.y * p
            /\ Dist2(shape.pos, call.obstacle.pos)
                   = (shape.r + call.obstacle.r) * (shape.r + call.obstacle.r)
            /\ n.x * after.vel.x + n.y * after.vel.y = 0
            /\ n.x * after.vel.y - n.y * after.vel.x = n.x * self.vel.y - n.y * self.vel.x

=============================================================================
